---- MODULE Spec2Model ----
(***************************************************************************)
(* Proxy generation and de-duplication engine of ipgenpro.                 *)
(*                                                                         *)
(* The model covers the ProxyGenerator component (form state, the          *)
(* generation loop, the copy and download handlers), the store access      *)
(* functions of lib/supabase.ts and the tables and functions of the        *)
(* Supabase migrations that those functions call.  Several browser         *)
(* sessions (one per API key) run against one shared store.                *)
(*                                                                         *)
(* Text is modelled as a sequence of one-character strings so that the     *)
(* formatting, joining and splitting of proxy strings is computed the way  *)
(* the code computes it.                                                   *)
(***************************************************************************)
EXTENDS Integers, Sequences, FiniteSets, TLC

\* ------------------------------------------------------------------------
\* Bounds of the model
\* ------------------------------------------------------------------------

\* largest quantity a session asks for below the ceiling
MaxQty == 2

\* number of distinct outcomes the random draws of one candidate are
\* sampled from
MaxDraws == 2

\* number of save requests (copy or download) the sessions start in total
MaxSaves == 2

\* number of batch rows in the store the batch query is run against
MaxBatches == 2

\* number of generation_history rows in the store the history query is run
\* against
MaxLogs == 1

\* latest created_at of the rows the history query is run against
MaxTime == 2

\* the quantity asked for where the budget of attempts is followed to its end
BudgetQty == 3

\* number of results a session generates
MaxGens == 1

\* largest quantity asked for while sessions run concurrently
MaxSharedQty == 1

\* ------------------------------------------------------------------------
\* Program constants
\* ------------------------------------------------------------------------

\* if (amount > 5000)
MaxAmount == 5000

\* Math.min(100, amount - generated)
RoundLimit == 100

\* the factor of maxAttempts
AttemptFactor == 10

\* Math.floor(Math.random() * 900000) + 100000
SessionSpan == 900000

SessionBase == 100000

\* Math.floor(Math.random() * 15) + 1
ShardSpan == 15

ShardBase == 1

\* the API keys (api_keys.id) of the sessions
Clients == {"k1", "k2"}

\* ------------------------------------------------------------------------
\* Text helpers (JavaScript string operations used by the code)
\* ------------------------------------------------------------------------

DigitChars == <<"0", "1", "2", "3", "4", "5", "6", "7", "8", "9">>

IsDigit(ch) == \E i \in 1..10 : DigitChars[i] = ch

DigitValue(ch) == (CHOOSE i \in 1..10 : DigitChars[i] = ch) - 1

RECURSIVE NatToText(_)
\* Number.prototype.toString of a non-negative integer (template literal)
NatToText(n) ==
    IF n < 10 THEN <<DigitChars[n + 1]>>
    ELSE NatToText(n \div 10) \o <<DigitChars[(n % 10) + 1]>>

Min(a, b) == IF a < b THEN a ELSE b

\* String.prototype.includes for a single character
Includes(s, ch) == \E i \in 1..Len(s) : s[i] = ch

IsSpace(ch) == ch \in {" ", "\n", "\t"}

\* line.trim() is the empty string
IsBlank(s) == \A i \in 1..Len(s) : IsSpace(s[i])

RECURSIVE Split(_, _)
\* String.prototype.split(sep) for a one-character separator
Split(s, sep) ==
    IF ~Includes(s, sep) THEN <<s>>
    ELSE LET i == CHOOSE k \in 1..Len(s) :
                      s[k] = sep /\ \A j \in 1..(k - 1) : s[j] # sep
         IN  <<SubSeq(s, 1, i - 1)>> \o Split(SubSeq(s, i + 1, Len(s)), sep)

RECURSIVE Join(_, _)
\* Array.prototype.join(sep)
Join(list, sep) ==
    IF list = <<>> THEN <<>>
    ELSE IF Len(list) = 1 THEN list[1]
    ELSE list[1] \o sep \o Join(Tail(list), sep)

RECURSIVE Filter(_, _)
\* Array.prototype.filter with the predicate given as the set of kept values
Filter(list, keep) ==
    IF list = <<>> THEN <<>>
    ELSE (IF list[1] \in keep THEN <<list[1]>> ELSE <<>>)
         \o Filter(Tail(list), keep)

Range(f) == {f[i] : i \in DOMAIN f}

\* ------------------------------------------------------------------------
\* Inputs
\* ------------------------------------------------------------------------

Empty == <<>>

\* what the user may have typed into each field of the form
HostInputs == {Empty, <<"s", "7">>}

PortInputs == {Empty, <<"8">>}

UserIdInputs == {Empty, <<"u">>}

CountryInputs == {Empty, <<"u", "k">>}

PasswordInputs == {Empty, <<"p">>}

Templates ==
    [host : HostInputs, port : PortInputs, userId : UserIdInputs,
     country : CountryInputs, password : PasswordInputs]

\* what the user may have typed into the quantity field: nothing, zero, a
\* negative number, the quantities 1..MaxQty and one above the ceiling
AmountInputs ==
    {Empty, <<"0">>, <<"-", "1">>, NatToText(MaxAmount + 1)}
        \cup {NatToText(q) : q \in 1..MaxQty}

\* sample i of the random session id, taken alternately from the low and the
\* high end of [SessionBase, SessionBase + SessionSpan - 1]
SessionSample(i) ==
    IF i % 2 = 1 THEN SessionBase + (i \div 2)
    ELSE SessionBase + SessionSpan - (i \div 2)

\* sample i of the random shard index, taken alternately from the low and
\* the high end of [ShardBase, ShardBase + ShardSpan - 1]
ShardSample(i) ==
    IF i % 2 = 1 THEN ShardBase + (i \div 2)
    ELSE ShardBase + ShardSpan - (i \div 2)

\* the outcomes of the two Math.random() calls of one candidate
Draws == {[session |-> SessionSample(i), shard |-> ShardSample(i)] : i \in 1..MaxDraws}

\* ------------------------------------------------------------------------
\* Proxy codec
\* ------------------------------------------------------------------------

RECURSIVE DigitsValue(_, _)
DigitsValue(s, acc) ==
    IF s = <<>> \/ ~IsDigit(Head(s)) THEN acc
    ELSE DigitsValue(Tail(s), 10 * acc + DigitValue(Head(s)))

\* Number.parseInt(text): optional sign, then the leading digits; the result
\* is NaN (isNaN) when there is no leading digit
ParseInt(s) ==
    LET neg  == s # <<>> /\ Head(s) = "-"
        rest == IF s # <<>> /\ Head(s) \in {"-", "+"} THEN Tail(s) ELSE s
    IN  IF rest = <<>> \/ ~IsDigit(Head(rest)) THEN [isNaN |-> TRUE, value |-> 0]
        ELSE [isNaN |-> FALSE,
              value |-> IF neg THEN 0 - DigitsValue(rest, 0)
                        ELSE DigitsValue(rest, 0)]

\* Number.parseInt(bulkAmount) || 1
ParseAmount(text) ==
    LET n == ParseInt(text) IN IF n.isNaN \/ n.value = 0 THEN 1 ELSE n.value

\* first position of a match of /s\d+/ in host, 0 when there is none
ShardMatchStart(host) ==
    LET hits == {i \in 1..(Len(host) - 1) : host[i] = "s" /\ IsDigit(host[i + 1])}
    IN  IF hits = {} THEN 0 ELSE CHOOSE i \in hits : \A j \in hits : i <= j

\* last position of the match of /s\d+/ that starts at position start
ShardMatchEnd(host, start) ==
    CHOOSE e \in (start + 1)..Len(host) :
        /\ \A j \in (start + 1)..e : IsDigit(host[j])
        /\ (e = Len(host) \/ ~IsDigit(host[e + 1]))

\* host.replace(/s\d+/, `s${s8Digit}`)
ReplaceShard(host, s8Digit) ==
    LET st == ShardMatchStart(host)
    IN  IF st = 0 THEN host
        ELSE SubSeq(host, 1, st - 1) \o <<"s">> \o NatToText(s8Digit)
             \o SubSeq(host, ShardMatchEnd(host, st) + 1, Len(host))

\* the country token of a generated string
FinalCountryCode(country) ==
    LET countryCode == IF country = <<"u", "k">> THEN <<"g", "b">> ELSE country
    IN  IF Includes(countryCode, "_") THEN countryCode
        ELSE <<"l", "v", "_">> \o countryCode

\* one candidate string of the inner for loop
FormatProxy(f, draw) ==
    ReplaceShard(f.host, draw.shard) \o <<":">> \o f.port \o <<":">>
    \o f.userId \o <<"-">> \o FinalCountryCode(f.country) \o <<"-">>
    \o NatToText(draw.session) \o <<":">> \o f.password

\* whether the copy and download handlers keep a line: it has at least 4
\* ':' segments and its third has at least 3 '-' segments
IsWellFormed(proxyString) ==
    LET parts == Split(proxyString, ":")
    IN  Len(parts) >= 4 /\ Len(Split(parts[3], "-")) >= 3

\* the record the copy and download handlers build from a kept line
ParseLine(proxyString) ==
    LET parts     == Split(proxyString, ":")
        userParts == Split(parts[3], "-")
    IN  [proxy_string |-> proxyString,
         host |-> parts[1],
         port |-> parts[2],
         user_id |-> userParts[1],
         country |-> userParts[2],
         session_id |-> userParts[3]]

RECURSIVE MapParse(_)
MapParse(lines) ==
    IF lines = <<>> THEN <<>>
    ELSE (IF ~IsBlank(lines[1]) /\ IsWellFormed(lines[1])
          THEN <<ParseLine(lines[1])>> ELSE <<>>)
         \o MapParse(Tail(lines))

\* bulkProxies.split('\n').filter(line => line.trim()).map(...).filter(Boolean)
ProxyData(text) == MapParse(Split(text, "\n"))

\* ------------------------------------------------------------------------
\* Country resolver and proxy string parser
\* ------------------------------------------------------------------------

LowerChars == <<"a", "b", "c", "d", "e", "f", "g", "h", "i", "j", "k", "l", "m", "n", "o", "p", "q", "r", "s", "t", "u", "v", "w", "x", "y", "z">>

UpperChars == <<"A", "B", "C", "D", "E", "F", "G", "H", "I", "J", "K", "L", "M", "N", "O", "P", "Q", "R", "S", "T", "U", "V", "W", "X", "Y", "Z">>

\* [a-z]
IsLower(ch) == \E i \in 1..26 : LowerChars[i] = ch

\* String.prototype.toLowerCase
ToLowerCase(s) ==
    [i \in 1..Len(s) |->
        IF \E k \in 1..26 : UpperChars[k] = s[i]
        THEN LowerChars[CHOOSE k \in 1..26 : UpperChars[k] = s[i]]
        ELSE s[i]]

RECURSIVE TrimStart(_)
TrimStart(s) == IF s # <<>> /\ IsSpace(Head(s)) THEN TrimStart(Tail(s)) ELSE s

RECURSIVE TrimEnd(_)
TrimEnd(s) ==
    IF s # <<>> /\ IsSpace(s[Len(s)]) THEN TrimEnd(SubSeq(s, 1, Len(s) - 1))
    ELSE s

\* String.prototype.trim
Trim(s) == TrimEnd(TrimStart(s))

\* String.prototype.includes for a string
Contains(s, sub) ==
    \E i \in 0..(Len(s) - Len(sub)) : SubSeq(s, i + 1, i + Len(sub)) = sub

\* the countries table, in its order
countries == <<
    [code |-> <<"u", "s">>, name |-> <<"U", "n", "i", "t", "e", "d", " ", "S", "t", "a", "t", "e", "s">>,
     aliases |-> <<<<"u", "s", "a">>, <<"u", "n", "i", "t", "e", "d", " ", "s", "t", "a", "t", "e", "s">>, <<"a", "m", "e", "r", "i", "c", "a">>>>],
    [code |-> <<"u", "k">>, name |-> <<"U", "n", "i", "t", "e", "d", " ", "K", "i", "n", "g", "d", "o", "m">>,
     aliases |-> <<<<"u", "n", "i", "t", "e", "d", " ", "k", "i", "n", "g", "d", "o", "m">>, <<"b", "r", "i", "t", "a", "i", "n">>, <<"e", "n", "g", "l", "a", "n", "d">>, <<"g", "b">>>>],
    [code |-> <<"c", "a">>, name |-> <<"C", "a", "n", "a", "d", "a">>,
     aliases |-> <<<<"c", "a", "n", "a", "d", "a">>, <<"c", "a", "n">>>>],
    [code |-> <<"a", "u">>, name |-> <<"A", "u", "s", "t", "r", "a", "l", "i", "a">>,
     aliases |-> <<<<"a", "u", "s", "t", "r", "a", "l", "i", "a">>, <<"a", "u", "s">>>>],
    [code |-> <<"d", "e">>, name |-> <<"G", "e", "r", "m", "a", "n", "y">>,
     aliases |-> <<<<"g", "e", "r", "m", "a", "n", "y">>, <<"d", "e", "u", "t", "s", "c", "h", "l", "a", "n", "d">>, <<"g", "e", "r">>>>],
    [code |-> <<"f", "r">>, name |-> <<"F", "r", "a", "n", "c", "e">>,
     aliases |-> <<<<"f", "r", "a", "n", "c", "e">>, <<"f", "r", "a">>>>],
    [code |-> <<"j", "p">>, name |-> <<"J", "a", "p", "a", "n">>,
     aliases |-> <<<<"j", "a", "p", "a", "n">>, <<"j", "p", "n">>>>],
    [code |-> <<"s", "g">>, name |-> <<"S", "i", "n", "g", "a", "p", "o", "r", "e">>,
     aliases |-> <<<<"s", "i", "n", "g", "a", "p", "o", "r", "e">>, <<"s", "g", "p">>>>],
    [code |-> <<"n", "l">>, name |-> <<"N", "e", "t", "h", "e", "r", "l", "a", "n", "d", "s">>,
     aliases |-> <<<<"n", "e", "t", "h", "e", "r", "l", "a", "n", "d", "s">>, <<"h", "o", "l", "l", "a", "n", "d">>, <<"n", "l", "d">>>>],
    [code |-> <<"b", "r">>, name |-> <<"B", "r", "a", "z", "i", "l">>,
     aliases |-> <<<<"b", "r", "a", "z", "i", "l">>, <<"b", "r", "a", "s", "i", "l">>, <<"b", "r", "a">>>>],
    [code |-> <<"i", "n">>, name |-> <<"I", "n", "d", "i", "a">>,
     aliases |-> <<<<"i", "n", "d", "i", "a">>, <<"i", "n", "d">>>>],
    [code |-> <<"m", "x">>, name |-> <<"M", "e", "x", "i", "c", "o">>,
     aliases |-> <<<<"m", "e", "x", "i", "c", "o">>, <<"m", "e", "x">>>>],
    [code |-> <<"e", "s">>, name |-> <<"S", "p", "a", "i", "n">>,
     aliases |-> <<<<"s", "p", "a", "i", "n">>, <<"e", "s", "p">>>>],
    [code |-> <<"i", "t">>, name |-> <<"I", "t", "a", "l", "y">>,
     aliases |-> <<<<"i", "t", "a", "l", "y">>, <<"i", "t", "a">>>>],
    [code |-> <<"r", "u">>, name |-> <<"R", "u", "s", "s", "i", "a">>,
     aliases |-> <<<<"r", "u", "s", "s", "i", "a">>, <<"r", "u", "s">>>>],
    [code |-> <<"k", "r">>, name |-> <<"S", "o", "u", "t", "h", " ", "K", "o", "r", "e", "a">>,
     aliases |-> <<<<"k", "o", "r", "e", "a">>, <<"s", "o", "u", "t", "h", " ", "k", "o", "r", "e", "a">>, <<"k", "o", "r">>>>],
    [code |-> <<"s", "e">>, name |-> <<"S", "w", "e", "d", "e", "n">>,
     aliases |-> <<<<"s", "w", "e", "d", "e", "n">>, <<"s", "w", "e">>>>],
    [code |-> <<"c", "h">>, name |-> <<"S", "w", "i", "t", "z", "e", "r", "l", "a", "n", "d">>,
     aliases |-> <<<<"s", "w", "i", "t", "z", "e", "r", "l", "a", "n", "d">>, <<"c", "h", "e">>>>],
    [code |-> <<"a", "t">>, name |-> <<"A", "u", "s", "t", "r", "i", "a">>,
     aliases |-> <<<<"a", "u", "s", "t", "r", "i", "a">>, <<"a", "u", "t">>>>],
    [code |-> <<"b", "e">>, name |-> <<"B", "e", "l", "g", "i", "u", "m">>,
     aliases |-> <<<<"b", "e", "l", "g", "i", "u", "m">>, <<"b", "e", "l">>>>],
    [code |-> <<"b", "d">>, name |-> <<"B", "a", "n", "g", "l", "a", "d", "e", "s", "h">>,
     aliases |-> <<<<"b", "a", "n", "g", "l", "a", "d", "e", "s", "h">>, <<"b", "d">>>>],
    [code |-> <<"p", "k">>, name |-> <<"P", "a", "k", "i", "s", "t", "a", "n">>,
     aliases |-> <<<<"p", "a", "k", "i", "s", "t", "a", "n">>, <<"p", "k">>>>],
    [code |-> <<"a", "e">>, name |-> <<"U", "A", "E">>,
     aliases |-> <<<<"u", "a", "e">>, <<"e", "m", "i", "r", "a", "t", "e", "s">>, <<"a", "e">>>>],
    [code |-> <<"s", "a">>, name |-> <<"S", "a", "u", "d", "i", " ", "A", "r", "a", "b", "i", "a">>,
     aliases |-> <<<<"s", "a", "u", "d", "i">>, <<"s", "a", "u", "d", "i", " ", "a", "r", "a", "b", "i", "a">>, <<"s", "a">>>>]
>>

\* c.code.toLowerCase(), c.name.toLowerCase() and alias.toLowerCase() of
\* every country of the table
lowered ==
    [i \in 1..Len(countries) |->
        [code |-> ToLowerCase(countries[i].code),
         name |-> ToLowerCase(countries[i].name),
         aliases |-> [a \in 1..Len(countries[i].aliases) |->
                         ToLowerCase(countries[i].aliases[a])]]]

\* the null that findCountryCode returns; no text is equal to it
NotFound == <<"null">>

\* group 1 of the match of /_([a-z]{2})$/, the empty text when there is none
MatchUnderscoreSuffix(s) ==
    IF /\ Len(s) >= 3
       /\ s[Len(s) - 2] = "_"
       /\ IsLower(s[Len(s) - 1])
       /\ IsLower(s[Len(s)])
    THEN SubSeq(s, Len(s) - 1, Len(s)) ELSE Empty

\* group 1 of the match of /([a-z]{2})$/
MatchSuffix(s) ==
    IF Len(s) >= 2 /\ IsLower(s[Len(s) - 1]) /\ IsLower(s[Len(s)])
    THEN SubSeq(s, Len(s) - 1, Len(s)) ELSE Empty

\* group 1 of the match of /^([a-z]{2})_/
MatchPrefix(s) ==
    IF Len(s) >= 3 /\ IsLower(s[1]) /\ IsLower(s[2]) /\ s[3] = "_"
    THEN SubSeq(s, 1, 2) ELSE Empty

\* group 1 of the leftmost match of /[_-]([a-z]{2})[_-]/
MatchInfix(s) ==
    LET hits == {i \in 1..(Len(s) - 3) :
                    /\ s[i] \in {"_", "-"}
                    /\ IsLower(s[i + 1])
                    /\ IsLower(s[i + 2])
                    /\ s[i + 3] \in {"_", "-"}}
    IN  IF hits = {} THEN Empty
        ELSE LET i == CHOOSE k \in hits : \A j \in hits : k <= j
             IN  SubSeq(s, i + 1, i + 2)

\* const patterns = [...], applied to searchTerm
patterns(s) ==
    <<MatchUnderscoreSuffix(s), MatchSuffix(s), MatchPrefix(s), MatchInfix(s)>>

\* countries.find(...): the position of the first of the countries at the
\* positions hits, 0 when there is none
Find(hits) ==
    IF hits = {} THEN 0 ELSE CHOOSE i \in hits : \A j \in hits : i <= j

\* the country whose code or one of whose aliases is extractedCode
ByCodeOrAlias(extractedCode) ==
    Find({i \in 1..Len(lowered) :
             \/ lowered[i].code = extractedCode
             \/ \E a \in 1..Len(lowered[i].aliases) :
                    lowered[i].aliases[a] = extractedCode})

\* findCountryCode from the pattern loop on, for the value of searchTerm
FindSearchTerm(searchTerm) ==
    LET m       == patterns(searchTerm)
        matched == {p \in 1..4 : m[p] # Empty /\ ByCodeOrAlias(m[p]) # 0}
        exactMatch ==
            Find({i \in 1..Len(lowered) : lowered[i].code = searchTerm})
        aliasMatch ==
            Find({i \in 1..Len(lowered) :
                     \/ lowered[i].name = searchTerm
                     \/ \E a \in 1..Len(lowered[i].aliases) :
                            lowered[i].aliases[a] = searchTerm})
        partialMatch ==
            Find({i \in 1..Len(lowered) :
                     \/ Contains(lowered[i].name, searchTerm)
                     \/ \E a \in 1..Len(lowered[i].aliases) :
                            Contains(lowered[i].aliases[a], searchTerm)
                     \/ Contains(searchTerm, lowered[i].name)
                     \/ \E a \in 1..Len(lowered[i].aliases) :
                            Contains(searchTerm, lowered[i].aliases[a])})
    IN  IF matched # {}
        THEN countries[ByCodeOrAlias(
                 m[CHOOSE p \in matched : \A q \in matched : p <= q])].code
        ELSE IF exactMatch # 0 THEN countries[exactMatch].code
        ELSE IF aliasMatch # 0 THEN countries[aliasMatch].code
        ELSE IF partialMatch # 0 THEN countries[partialMatch].code
        ELSE NotFound

\* findCountryCode
FindCountryCode(countryStr) ==
    IF countryStr = Empty THEN NotFound
    ELSE CHOOSE code \in {FindSearchTerm(searchTerm) :
                             searchTerm \in {Trim(ToLowerCase(countryStr))}} :
             TRUE

\* the null that parseProxyString returns
NoDetails == [null |-> TRUE]

\* parseProxyString
ParseProxyString(proxyStr) ==
    IF IsBlank(proxyStr) THEN NoDetails
    ELSE
    LET parts == Split(proxyStr, ":")
    IN  IF Len(parts) < 4 THEN NoDetails
        ELSE
        LET userParts == Split(Trim(parts[3]), "-")
        IN  IF Len(userParts) < 3 THEN NoDetails
            ELSE
            LET detectedCountry == FindCountryCode(Trim(userParts[2]))
            IN  [host |-> Trim(parts[1]),
                 port |-> Trim(parts[2]),
                 userId |-> Trim(userParts[1]),
                 country |-> IF detectedCountry = NotFound
                                \/ detectedCountry = Empty
                             THEN Empty ELSE detectedCountry,
                 sessionId |-> Trim(userParts[3]),
                 password |-> Trim(parts[4])]

\* the codes, names and aliases of the countries table
TableStrs ==
    UNION {{countries[i].code, countries[i].name}
               \cup {countries[i].aliases[a] :
                         a \in 1..Len(countries[i].aliases)} :
           i \in 1..Len(countries)}

\* other texts given to findCountryCode
CountryStrs ==
    {<<"U", "K">>, <<"B", "r", "i", "t", "a", "i", "n">>, <<"g", "b", "_", "r", "e", "s", "i", "d", "e", "n", "t", "i", "a", "l">>, <<"a", "t", "l", "a", "n", "t", "i", "s">>, <<"e", "n", "g", "l", "a", "n", "d">>, <<" ">>}

\* complete forms whose host holds one or two shard markers, whose user id
\* may contain '-' and whose password may contain ':', with a country typed
\* as a code or as an alias
CodecTemplates ==
    [host : {<<"s", "7">>, <<"s", "7", "s", "2", "0">>}, port : {<<"8">>},
     userId : {<<"u">>, <<"a", "-", "b">>},
     country : {<<"u", "k">>, <<"u", "s">>, <<"e", "n", "g", "l", "a", "n", "d">>},
     password : {<<"p">>, <<"p", ":", "q">>}]

\* ------------------------------------------------------------------------
\* State
\* ------------------------------------------------------------------------

VARIABLES
    \* ProxyGenerator component state, one per session
    form,               \* host, port, userId, country, password as the
                        \* running generation call closed over them
    bulkAmount,         \* text of the quantity field
    bulkProxies,        \* the displayed result
    isGenerating,
    isSaving,
    alert,              \* the alert() call of the last step, if it made one
    \* the running generateProxiesWithDuplicateCheck call of a session
    genPc,              \* "idle", or "loop" at the test of the while loop
    amount,
    proxies,
    generated,
    attempts,
    checkFailed,        \* history: a duplicate query of the call has failed
                        \* (checkDuplicateProxies logged it and returned [])
    \* the running saveGeneratedProxies calls
    saves,
    nextSave,
    \* the store
    generation_batches,
    generated_proxies,
    generation_history,
    api_keys,           \* the ids of the api_keys rows (none is an admin key)
    clock,              \* the time of the database: now()
    \* history: the number of results each session has generated, which
    \* numbers the result it displays, and the number of the result each
    \* batch row was created for
    genSeq,
    batchResult,
    \* history: the library call of the last step that only reads (a query of
    \* the store, findCountryCode, parseProxyString), with its arguments and
    \* what it returned
    call,
    \* history: the Generate click of the last step, if it was one: the
    \* session and the form values and quantity text its handler read
    clicked,
    \* history: the export of the last step, if it made one: the session and
    \* where the displayed text went (clipboard or file)
    exported

uiVars == <<form, bulkAmount, bulkProxies, isGenerating, isSaving, alert>>

loopVars == <<genPc, amount, proxies, generated, attempts, checkFailed>>

saveVars == <<saves, nextSave>>

storeVars ==
    <<generation_batches, generated_proxies, generation_history, api_keys,
      clock>>

histVars == <<genSeq, batchResult, call>>

vars ==
    <<uiVars, loopVars, saveVars, storeVars, histVars, clicked, exported>>

\* the alerts of the component; key is the session that shows it, fields,
\* generated and amount carry what the message text names
NoAlert ==
    [kind |-> "none", key |-> "", fields |-> <<>>, generated |-> 0, amount |-> 0]

\* alert(`Please fill in the following fields: ...`)
MissingFieldAlert(c, names) ==
    [kind |-> "MissingField", key |-> c, fields |-> names, generated |-> 0,
     amount |-> 0]

\* alert("Maximum 5000 proxies can be generated.")
InvalidQuantityAlert(c) ==
    [kind |-> "InvalidQuantity", key |-> c, fields |-> <<>>, generated |-> 0,
     amount |-> 0]

\* alert("Could not generate unique proxies. All generated proxies already exist.")
ExhaustedRetriesAlert(c) ==
    [kind |-> "ExhaustedRetries", key |-> c, fields |-> <<>>, generated |-> 0,
     amount |-> 0]

\* alert(`Only generated ${generated} unique proxies out of ${amount} requested...`)
ShortfallAlert(c, g, a) ==
    [kind |-> "Shortfall", key |-> c, fields |-> <<>>, generated |-> g,
     amount |-> a]

\* alert('Error saving proxies to database.')
SaveErrorAlert(c) ==
    [kind |-> "SaveError", key |-> c, fields |-> <<>>, generated |-> 0,
     amount |-> 0]

\* alert('Error generating proxies. Please try again.')
GenerateErrorAlert(c) ==
    [kind |-> "GenerateError", key |-> c, fields |-> <<>>, generated |-> 0,
     amount |-> 0]

EmptyForm ==
    [host |-> Empty, port |-> Empty, userId |-> Empty, country |-> Empty,
     password |-> Empty]

\* the last step was no reading library call
NoCall == [fn |-> "none"]

\* the last step exported nothing
NoExport == [key |-> "", to |-> "none"]

\* navigator.clipboard.writeText(bulkProxies) or the fallback copy of the
\* copy handler, the download of a text file of the download handler
Exported(c, kind) ==
    [key |-> c, to |-> IF kind = "copy" THEN "clipboard" ELSE "file"]

\* alert("Failed to save and copy. Please try again.")
CopyErrorAlert(c) ==
    [kind |-> "CopyError", key |-> c, fields |-> <<>>, generated |-> 0,
     amount |-> 0]

\* the last step was no click on Generate
NoClick == [key |-> "", form |-> EmptyForm, bulkAmount |-> Empty]

Init ==
    /\ form = [c \in Clients |-> EmptyForm]
    /\ bulkAmount = [c \in Clients |-> <<"1">>]
    /\ bulkProxies = [c \in Clients |-> Empty]
    /\ isGenerating = [c \in Clients |-> FALSE]
    /\ isSaving = [c \in Clients |-> FALSE]
    /\ alert = NoAlert
    /\ clicked = NoClick
    /\ exported = NoExport
    /\ api_keys = Clients
    /\ genPc = [c \in Clients |-> "idle"]
    /\ amount = [c \in Clients |-> 0]
    /\ proxies = [c \in Clients |-> <<>>]
    /\ generated = [c \in Clients |-> 0]
    /\ attempts = [c \in Clients |-> 0]
    /\ checkFailed = [c \in Clients |-> FALSE]
    /\ saves = {}
    /\ nextSave = 1
    /\ generation_batches = {}
    /\ generated_proxies = {}
    /\ generation_history = {}
    /\ clock = 0
    /\ genSeq = [c \in Clients |-> 0]
    /\ batchResult = <<>>
    /\ call = NoCall

\* ------------------------------------------------------------------------
\* Generation
\* ------------------------------------------------------------------------

\* variant of EmptyFields: the password is not tested
EmptyFieldsNoPassword(f) ==
    (IF f.host = Empty THEN <<"Host">> ELSE <<>>)
    \o (IF f.port = Empty THEN <<"Port">> ELSE <<>>)
    \o (IF f.userId = Empty THEN <<"User ID">> ELSE <<>>)
    \o (IF f.country = Empty THEN <<"Country">> ELSE <<>>)

\* the names pushed to emptyFields, in the order of the five tests
EmptyFields(f) ==
    (IF f.host = Empty THEN <<"Host">> ELSE <<>>)
    \o (IF f.port = Empty THEN <<"Port">> ELSE <<>>)
    \o (IF f.userId = Empty THEN <<"User ID">> ELSE <<>>)
    \o (IF f.country = Empty THEN <<"Country">> ELSE <<>>)
    \o (IF f.password = Empty THEN <<"Password">> ELSE <<>>)

\* the quantities the model follows through the loop
InModelRange(a) == a <= MaxQty \/ a = BudgetQty \/ a > MaxAmount

\* generateBulkProxies with a field empty: the alert names the fields and
\* nothing else happens
RejectMissingFields(c, tpl) ==
    /\ alert' = MissingFieldAlert(c, EmptyFields(tpl))
    /\ UNCHANGED <<form, bulkAmount, isGenerating, loopVars>>

\* variant of RejectQuantity: isGenerating is left set
RejectQuantityStaysBusy(c) ==
    /\ alert' = InvalidQuantityAlert(c)
    /\ bulkAmount' = [bulkAmount EXCEPT ![c] = NatToText(MaxAmount)]
    /\ isGenerating' = [isGenerating EXCEPT ![c] = TRUE]
    /\ UNCHANGED <<form, loopVars>>

\* generateProxiesWithDuplicateCheck with amount > 5000: alert, the quantity
\* field is set to 5000, isGenerating is cleared, return
RejectQuantity(c) ==
    /\ alert' = InvalidQuantityAlert(c)
    /\ bulkAmount' = [bulkAmount EXCEPT ![c] = NatToText(MaxAmount)]
    /\ isGenerating' = [isGenerating EXCEPT ![c] = FALSE]
    /\ UNCHANGED <<form, loopVars>>

\* setIsGenerating(true) and the locals of the call before the while loop
EnterLoop(c, tpl, amt) ==
    /\ alert' = NoAlert
    /\ form' = [form EXCEPT ![c] = tpl]
    /\ bulkAmount' = [bulkAmount EXCEPT ![c] = amt]
    /\ isGenerating' = [isGenerating EXCEPT ![c] = TRUE]
    /\ genPc' = [genPc EXCEPT ![c] = "loop"]
    /\ amount' = [amount EXCEPT ![c] = ParseAmount(amt)]
    /\ proxies' = [proxies EXCEPT ![c] = <<>>]
    /\ generated' = [generated EXCEPT ![c] = 0]
    /\ attempts' = [attempts EXCEPT ![c] = 0]
    /\ checkFailed' = [checkFailed EXCEPT ![c] = FALSE]

\* The user fills the form and the quantity field and clicks Generate (the
\* button is disabled while isGenerating or isSaving): generateBulkProxies,
\* then generateProxiesWithDuplicateCheck up to the first test of the while
\* loop.
GenerateBulkProxies(c, tpl, amt) ==
    /\ ~isGenerating[c]
    /\ ~isSaving[c]
    /\ genSeq[c] < MaxGens
    /\ InModelRange(ParseAmount(amt))
    /\ clicked' = [key |-> c, form |-> tpl, bulkAmount |-> amt]
    /\ exported' = NoExport
    /\ IF EmptyFields(tpl) # <<>> THEN RejectMissingFields(c, tpl)
       ELSE IF ParseAmount(amt) > MaxAmount THEN RejectQuantity(c)
       ELSE EnterLoop(c, tpl, amt)
    /\ UNCHANGED <<bulkProxies, isSaving, saveVars, storeVars, histVars>>

\* variant of GenerateBulkProxiesBusy: the running call is started anew
GenerateBulkProxiesRestarts(c) ==
    /\ isGenerating[c]
    /\ clicked' = NoClick
    /\ exported' = NoExport
    /\ alert' = NoAlert
    /\ proxies' = [proxies EXCEPT ![c] = <<>>]
    /\ generated' = [generated EXCEPT ![c] = 0]
    /\ attempts' = [attempts EXCEPT ![c] = 0]
    /\ UNCHANGED <<form, bulkAmount, bulkProxies, isGenerating, isSaving,
                   genPc, amount, checkFailed, saveVars, storeVars, histVars>>

\* generateBulkProxies is called while isGenerating: it returns at its first
\* line, having read neither the form nor the quantity.
GenerateBulkProxiesBusy(c) ==
    /\ isGenerating[c]
    /\ clicked' = [key |-> c, form |-> EmptyForm, bulkAmount |-> Empty]
    /\ exported' = NoExport
    /\ alert' = NoAlert
    /\ UNCHANGED <<form, bulkAmount, bulkProxies, isGenerating, isSaving,
                   loopVars, saveVars, storeVars, histVars>>

\* const maxAttempts = amount * 10
MaxAttempts(a) == a * AttemptFactor

\* variant of LoopCondition: the budget of attempts is not tested
LoopConditionNoBudget(c) == generated[c] < amount[c]

\* while (generated < amount && attempts < maxAttempts)
LoopCondition(c) ==
    generated[c] < amount[c] /\ attempts[c] < MaxAttempts(amount[c])

\* variant of BatchSize: one candidate more than is still missing
BatchSizeOneMore(c) == Min(RoundLimit, amount[c] - generated[c]) + 1

\* const batchSize = Math.min(100, amount - generated)
BatchSize(c) == Min(RoundLimit, amount[c] - generated[c])

\* checkDuplicateProxies: the proxy_string of every row whose proxy_string is
\* in the list; the empty list when the query fails
CheckDuplicateProxies(proxyStrings, ok) ==
    IF ok
    THEN {r.proxy_string : r \in {x \in generated_proxies :
                                      x.proxy_string \in Range(proxyStrings)}}
    ELSE {}

\* variant of UniqueProxies: nothing is filtered out
UniqueProxiesUnfiltered(batchProxies, duplicates) == batchProxies

\* batchProxies.filter(proxy => !duplicates.includes(proxy))
UniqueProxies(batchProxies, duplicates) ==
    Filter(batchProxies, Range(batchProxies) \ duplicates)

\* the candidates the for loop of a round pushes to batchProxies
BatchProxies(c, draws) ==
    [i \in 1..BatchSize(c) |-> FormatProxy(form[c], draws[i])]

\* One round of the while loop: the for loop synthesizes batchSize
\* candidates, the store answers the duplicate query, the survivors are
\* appended.
RoundStep(c, draws, ok) ==
    /\ genPc[c] = "loop"
    /\ LoopCondition(c)
    /\ LET batchProxies  == BatchProxies(c, draws)
           duplicates    == CheckDuplicateProxies(batchProxies, ok)
           uniqueProxies == UniqueProxies(batchProxies, duplicates)
       IN  /\ proxies' = [proxies EXCEPT ![c] = @ \o uniqueProxies]
           /\ generated' = [generated EXCEPT ![c] = @ + Len(uniqueProxies)]
           /\ attempts' = [attempts EXCEPT ![c] = @ + BatchSize(c)]
    /\ checkFailed' = [checkFailed EXCEPT ![c] = @ \/ ~ok]
    /\ alert' = NoAlert
    /\ clicked' = NoClick
    /\ exported' = NoExport
    /\ UNCHANGED <<genPc, amount, form, bulkAmount, bulkProxies, isGenerating,
                   isSaving, saveVars, storeVars, genSeq, batchResult>>

\* a round whose duplicate query is not recorded
Round(c, draws, ok) == RoundStep(c, draws, ok) /\ UNCHANGED call

\* a round whose duplicate query is recorded as the call of the step
QueriedRound(c, draws, ok) ==
    /\ RoundStep(c, draws, ok)
    /\ call' = [fn |-> "checkDuplicateProxies",
                proxyStrings |-> BatchProxies(c, draws),
                error |-> ~ok,
                result |-> CheckDuplicateProxies(BatchProxies(c, draws), ok)]

\* the call returns: its locals and the values it closed over are gone
Return(c) ==
    /\ genPc' = [genPc EXCEPT ![c] = "idle"]
    /\ form' = [form EXCEPT ![c] = EmptyForm]
    /\ amount' = [amount EXCEPT ![c] = 0]
    /\ proxies' = [proxies EXCEPT ![c] = <<>>]
    /\ generated' = [generated EXCEPT ![c] = 0]
    /\ attempts' = [attempts EXCEPT ![c] = 0]
    /\ checkFailed' = [checkFailed EXCEPT ![c] = FALSE]

\* variant of GenerateExhausted: the empty result is displayed
GenerateExhaustedDisplays(c) ==
    /\ genPc[c] = "loop"
    /\ ~LoopCondition(c)
    /\ generated[c] = 0
    /\ alert' = ExhaustedRetriesAlert(c)
    /\ clicked' = NoClick
    /\ exported' = NoExport
    /\ bulkProxies' = [bulkProxies EXCEPT ![c] = Join(proxies[c], <<"\n">>)]
    /\ isGenerating' = [isGenerating EXCEPT ![c] = FALSE]
    /\ Return(c)
    /\ UNCHANGED <<bulkAmount, isSaving, saveVars, storeVars, histVars>>

\* The loop has ended with nothing accepted: alert and return; finally
\* clears isGenerating.
GenerateExhausted(c) ==
    /\ genPc[c] = "loop"
    /\ ~LoopCondition(c)
    /\ generated[c] = 0
    /\ alert' = ExhaustedRetriesAlert(c)
    /\ clicked' = NoClick
    /\ exported' = NoExport
    /\ isGenerating' = [isGenerating EXCEPT ![c] = FALSE]
    /\ Return(c)
    /\ UNCHANGED <<bulkAmount, bulkProxies, isSaving, saveVars, storeVars,
                   histVars>>

\* The awaited duplicate query of a round rejects: catch alerts, finally
\* clears isGenerating; nothing is displayed.
GenerateThrows(c) ==
    /\ genPc[c] = "loop"
    /\ LoopCondition(c)
    /\ alert' = GenerateErrorAlert(c)
    /\ clicked' = NoClick
    /\ exported' = NoExport
    /\ isGenerating' = [isGenerating EXCEPT ![c] = FALSE]
    /\ Return(c)
    /\ UNCHANGED <<bulkAmount, bulkProxies, isSaving, saveVars, storeVars,
                   histVars>>

\* logGenerationHistory: one row of generation_history
LogGenerationHistory(apiKeyId, totalGenerated, actionType) ==
    generation_history \cup
        {[id |-> Cardinality(generation_history), api_key_id |-> apiKeyId,
          total_generated |-> totalGenerated, action_type |-> actionType,
          created_at |-> clock]}

\* variant of GenerateDone: the generation is logged to generation_history
GenerateDoneLogs(c) ==
    /\ genPc[c] = "loop"
    /\ ~LoopCondition(c)
    /\ generated[c] # 0
    /\ alert' = IF generated[c] < amount[c]
                THEN ShortfallAlert(c, generated[c], amount[c]) ELSE NoAlert
    /\ clicked' = NoClick
    /\ exported' = NoExport
    /\ bulkProxies' = [bulkProxies EXCEPT ![c] = Join(proxies[c], <<"\n">>)]
    /\ isGenerating' = [isGenerating EXCEPT ![c] = FALSE]
    /\ Return(c)
    /\ genSeq' = [genSeq EXCEPT ![c] = @ + 1]
    /\ generation_history' = LogGenerationHistory(c, generated[c], "generate")
    /\ clock' = clock + 1
    /\ UNCHANGED <<bulkAmount, isSaving, saveVars, generation_batches,
                   generated_proxies, api_keys, batchResult, call>>

\* variant of GenerateDone: a shortfall is not alerted
GenerateDoneSilent(c) ==
    /\ genPc[c] = "loop"
    /\ ~LoopCondition(c)
    /\ generated[c] # 0
    /\ alert' = NoAlert
    /\ clicked' = NoClick
    /\ exported' = NoExport
    /\ bulkProxies' = [bulkProxies EXCEPT ![c] = Join(proxies[c], <<"\n">>)]
    /\ isGenerating' = [isGenerating EXCEPT ![c] = FALSE]
    /\ Return(c)
    /\ genSeq' = [genSeq EXCEPT ![c] = @ + 1]
    /\ UNCHANGED <<bulkAmount, isSaving, saveVars, storeVars, batchResult,
                   call>>

\* The loop has ended with something accepted: the shortfall is alerted, the
\* result is displayed; finally clears isGenerating.
GenerateDone(c) ==
    /\ genPc[c] = "loop"
    /\ ~LoopCondition(c)
    /\ generated[c] # 0
    /\ alert' = IF generated[c] < amount[c]
                THEN ShortfallAlert(c, generated[c], amount[c]) ELSE NoAlert
    /\ clicked' = NoClick
    /\ exported' = NoExport
    /\ bulkProxies' = [bulkProxies EXCEPT ![c] = Join(proxies[c], <<"\n">>)]
    /\ isGenerating' = [isGenerating EXCEPT ![c] = FALSE]
    /\ Return(c)
    /\ genSeq' = [genSeq EXCEPT ![c] = @ + 1]
    /\ UNCHANGED <<bulkAmount, isSaving, saveVars, storeVars, batchResult,
                   call>>

\* ------------------------------------------------------------------------
\* Saving (copy and download)
\* ------------------------------------------------------------------------

\* a started saveGeneratedProxies call: the session, the handler that
\* awaits it, its proxies argument and its position (before the
\* create_generation_batch call or before the insert); result is the
\* displayed result the argument was parsed from
NewSave(c, kind) ==
    [id |-> nextSave, key |-> c, kind |-> kind,
     proxies |-> ProxyData(bulkProxies[c]), stage |-> "create",
     result |-> genSeq[c]]

\* The handler up to its first await: the displayed text is parsed and,
\* when a line was kept, saveGeneratedProxies is called; with no line kept
\* the text is exported at once and finally clears isSaving.
StartSave(c, kind) ==
    /\ bulkProxies[c] # Empty
    /\ nextSave <= MaxSaves
    /\ IF Len(ProxyData(bulkProxies[c])) > 0
       THEN /\ saves' = saves \cup {NewSave(c, kind)}
            /\ nextSave' = nextSave + 1
            /\ isSaving' = [isSaving EXCEPT ![c] = TRUE]
            /\ exported' = NoExport
       ELSE /\ isSaving' = [isSaving EXCEPT ![c] = FALSE]
            /\ exported' = Exported(c, kind)
            /\ UNCHANGED saveVars
    /\ alert' = NoAlert
    /\ clicked' = NoClick
    /\ UNCHANGED <<form, bulkAmount, bulkProxies, isGenerating, loopVars,
                   storeVars, histVars>>

\* The user clicks Copy All (the button is disabled while isSaving).
CopyBulkToClipboard(c) ==
    /\ ~isSaving[c]
    /\ StartSave(c, "copy")

\* The user clicks Download.
DownloadProxies(c) == StartSave(c, "download")

\* create_generation_batch: one row of generation_batches, its id returned
CreateGenerationBatch(apiKeyId, totalGenerated, id) ==
    generation_batches \cup
        {[id |-> id, api_key_id |-> apiKeyId, total_generated |-> totalGenerated,
          created_at |-> clock]}

\* the rows of the insert: every proxy with api_key_id and batch_id added
InsertRows(apiKeyId, list, batchId) ==
    {[id |-> <<batchId, i>>,
      api_key_id |-> apiKeyId,
      batch_id |-> batchId,
      proxy_string |-> list[i].proxy_string,
      host |-> list[i].host,
      port |-> list[i].port,
      user_id |-> list[i].user_id,
      country |-> list[i].country,
      session_id |-> list[i].session_id] : i \in 1..Len(list)}

\* variant of SaveThrows: the copy handler does not fall back to the second
\* way of copying
SaveThrowsNoFallback(t) ==
    /\ saves' = saves \ {t}
    /\ isSaving' = [isSaving EXCEPT ![t.key] = FALSE]
    /\ alert' = IF t.kind = "download" THEN SaveErrorAlert(t.key) ELSE NoAlert
    /\ clicked' = NoClick
    /\ exported' = NoExport
    /\ UNCHANGED <<form, bulkAmount, bulkProxies, isGenerating, nextSave,
                   loopVars>>

\* what the handler does when saveGeneratedProxies throws: download alerts;
\* copy falls back to document.execCommand("copy"), which copies the text,
\* refuses to, or throws, and then the handler alerts; finally clears
\* isSaving
SaveThrows(t) ==
    /\ saves' = saves \ {t}
    /\ isSaving' = [isSaving EXCEPT ![t.key] = FALSE]
    /\ IF t.kind = "download"
       THEN /\ alert' = SaveErrorAlert(t.key)
            /\ exported' = NoExport
       ELSE \E execCommand \in {"copied", "refused", "threw"} :
                /\ alert' = IF execCommand = "threw"
                            THEN CopyErrorAlert(t.key) ELSE NoAlert
                /\ exported' = IF execCommand = "copied"
                               THEN Exported(t.key, t.kind) ELSE NoExport
    /\ clicked' = NoClick
    /\ UNCHANGED <<form, bulkAmount, bulkProxies, isGenerating, nextSave,
                   loopVars>>

\* saveGeneratedProxies, first half: the batch row is created (its
\* api_key_id references api_keys).
SaveCreateBatch(t) ==
    /\ t \in saves
    /\ t.stage = "create"
    /\ t.key \in api_keys
    /\ generation_batches' = CreateGenerationBatch(t.key, Len(t.proxies), t.id)
    /\ clock' = clock + 1
    /\ batchResult' = batchResult @@ (t.id :> t.result)
    /\ saves' = (saves \ {t}) \cup {[t EXCEPT !.stage = "insert"]}
    /\ alert' = NoAlert
    /\ clicked' = NoClick
    /\ exported' = NoExport
    /\ UNCHANGED <<form, bulkAmount, bulkProxies, isGenerating, isSaving,
                   loopVars, nextSave, generated_proxies, generation_history,
                   api_keys, genSeq, call>>

\* saveGeneratedProxies, first half: the rpc returns an error.
SaveCreateBatchFails(t) ==
    /\ t \in saves
    /\ t.stage = "create"
    /\ SaveThrows(t)
    /\ UNCHANGED <<storeVars, histVars>>

\* variant of SaveInsert: the insert does not check that the key and the
\* batch of the rows exist
SaveInsertUnreferenced(t) ==
    /\ t \in saves
    /\ t.stage = "insert"
    /\ generated_proxies' = generated_proxies \cup InsertRows(t.key, t.proxies, t.id)
    /\ saves' = saves \ {t}
    /\ isSaving' = [isSaving EXCEPT ![t.key] = FALSE]
    /\ alert' = NoAlert
    /\ clicked' = NoClick
    /\ exported' = Exported(t.key, t.kind)
    /\ UNCHANGED <<form, bulkAmount, bulkProxies, isGenerating, loopVars,
                   nextSave, generation_batches, generation_history, api_keys,
                   clock, histVars>>

\* saveGeneratedProxies, second half: the rows are inserted (their
\* api_key_id references api_keys, their batch_id generation_batches), the
\* call returns, the handler exports the text and finally clears isSaving.
SaveInsert(t) ==
    /\ t \in saves
    /\ t.stage = "insert"
    /\ t.key \in api_keys
    /\ \E b \in generation_batches : b.id = t.id
    /\ generated_proxies' = generated_proxies \cup InsertRows(t.key, t.proxies, t.id)
    /\ saves' = saves \ {t}
    /\ isSaving' = [isSaving EXCEPT ![t.key] = FALSE]
    /\ alert' = NoAlert
    /\ clicked' = NoClick
    /\ exported' = Exported(t.key, t.kind)
    /\ UNCHANGED <<form, bulkAmount, bulkProxies, isGenerating, loopVars,
                   nextSave, generation_batches, generation_history, api_keys,
                   clock, histVars>>

\* saveGeneratedProxies, second half: the insert returns an error.
SaveInsertFails(t) ==
    /\ t \in saves
    /\ t.stage = "insert"
    /\ SaveThrows(t)
    /\ UNCHANGED <<storeVars, histVars>>

\* ------------------------------------------------------------------------
\* Specification
\* ------------------------------------------------------------------------

\* the steps of a generation call after the click
GenerationSteps(c) ==
    \/ \E ok \in BOOLEAN :
           \E draws \in [1..BatchSize(c) -> Draws] : Round(c, draws, ok)
    \/ GenerateExhausted(c)
    \/ GenerateDone(c)

\* the steps of the saveGeneratedProxies calls after the click
SaveSteps ==
    \/ \E t \in saves : SaveCreateBatch(t)
    \/ \E t \in saves : SaveCreateBatchFails(t)
    \/ \E t \in saves : SaveInsert(t)
    \/ \E t \in saves : SaveInsertFails(t)

\* the inputs that start a generation loop
CompleteTemplates == {tpl \in Templates : EmptyFields(tpl) = <<>>}

\* Sessions of all API keys run concurrently against the store; every user
\* fills the form completely and asks for a quantity in 1..MaxSharedQty.
Next ==
    \/ \E c \in Clients, tpl \in CompleteTemplates, q \in 1..MaxSharedQty :
           GenerateBulkProxies(c, tpl, NatToText(q))
    \/ \E c \in Clients : GenerationSteps(c)
    \/ \E c \in Clients : CopyBulkToClipboard(c)
    \/ \E c \in Clients : DownloadProxies(c)
    \/ SaveSteps

Spec == Init /\ [][Next]_vars

\* what a user may submit: any quantity text with a complete form, and any
\* incomplete form (the quantity is not read then)
Submissions ==
    (CompleteTemplates \X AmountInputs)
        \cup ((Templates \ CompleteTemplates) \X {<<"1">>})

\* every string the generation loop can synthesize from a complete form
Candidates == {FormatProxy(tpl, d) : tpl \in CompleteTemplates, d \in Draws}

RECURSIVE SetToSeq(_)
SetToSeq(S) ==
    IF S = {} THEN <<>>
    ELSE LET x == CHOOSE y \in S : TRUE IN <<x>> \o SetToSeq(S \ {x})

\* the proxies argument of a save of the strings S
SavedList(S) == MapParse(SetToSeq(S))

\* a result generated earlier: the string of the first sample draw
EarlierResult ==
    FormatProxy(CHOOSE tpl \in CompleteTemplates : TRUE,
                [session |-> SessionSample(1), shard |-> ShardSample(1)])

\* One session generates against a store in which the session of another
\* key has saved a result before (batch 0 of key k2, holding any of the
\* strings the loop can synthesize); nothing is saved meanwhile.  The
\* session displays nothing or a result it generated earlier (result 0).
\* The user may leave fields empty and type anything into the quantity
\* field.
InitForm ==
    /\ form = [c \in Clients |-> EmptyForm]
    /\ bulkAmount = [c \in Clients |-> <<"1">>]
    /\ \E shown \in {Empty, EarlierResult} :
           bulkProxies = [c \in Clients |-> IF c = "k1" THEN shown ELSE Empty]
    /\ isGenerating = [c \in Clients |-> FALSE]
    /\ isSaving = [c \in Clients |-> FALSE]
    /\ alert = NoAlert
    /\ clicked = NoClick
    /\ exported = NoExport
    /\ api_keys = Clients
    /\ genPc = [c \in Clients |-> "idle"]
    /\ amount = [c \in Clients |-> 0]
    /\ proxies = [c \in Clients |-> <<>>]
    /\ generated = [c \in Clients |-> 0]
    /\ attempts = [c \in Clients |-> 0]
    /\ checkFailed = [c \in Clients |-> FALSE]
    /\ saves = {}
    /\ nextSave = 1
    /\ genSeq = [c \in Clients |-> 0]
    /\ call = NoCall
    /\ generation_history = {}
    /\ \E S \in SUBSET Candidates :
           /\ generated_proxies = InsertRows("k2", SavedList(S), 0)
           /\ generation_batches =
                  IF S = {} THEN {}
                  ELSE {[id |-> 0, api_key_id |-> "k2",
                         total_generated |-> Cardinality(S), created_at |-> 0]}
           /\ clock = IF S = {} THEN 0 ELSE 1
           /\ batchResult = IF S = {} THEN <<>> ELSE (0 :> 0)

NextForm ==
    \/ \E sub \in Submissions : GenerateBulkProxies("k1", sub[1], sub[2])
    \/ GenerationSteps("k1")

SpecForm == InitForm /\ [][NextForm]_vars

\* A running generation call is continued: the event loop resumes the async
\* function when the awaited duplicate query has answered.
Continued == \A c \in Clients : WF_vars(GenerationSteps(c))

SpecFormFair == SpecForm /\ Continued

\* The session of SpecForm, where generateBulkProxies is also called while a
\* call is running and the duplicate query may reject.
NextBusy ==
    \/ NextForm
    \/ GenerateBulkProxiesBusy("k1")
    \/ GenerateThrows("k1")

SpecBusy == InitForm /\ [][NextBusy]_vars /\ Continued

\* One session asks for a quantity in 1..MaxQty with a complete form, against
\* the stores of InitForm; the duplicate query of every round is recorded.
NextRounds ==
    \/ \E tpl \in CompleteTemplates, q \in 1..MaxQty :
           GenerateBulkProxies("k1", tpl, NatToText(q))
    \/ \E ok \in BOOLEAN :
           \E draws \in [1..BatchSize("k1") -> Draws] :
               QueriedRound("k1", draws, ok)
    \/ GenerateExhausted("k1")
    \/ GenerateDone("k1")

SpecRounds == InitForm /\ [][NextRounds]_vars

\* One session asks for BudgetQty strings with a complete form, against the
\* stores of InitForm.
NextBudget ==
    \/ \E tpl \in CompleteTemplates :
           GenerateBulkProxies("k1", tpl, NatToText(BudgetQty))
    \/ GenerationSteps("k1")

SpecBudget == InitForm /\ [][NextBudget]_vars

\* ------------------------------------------------------------------------
\* The library calls that only read
\* ------------------------------------------------------------------------

\* the component state, the running calls and the history of the sessions
sessionVars == <<uiVars, loopVars, saveVars, genSeq, batchResult, clicked>>

\* the lists a round of the loop can pass to checkDuplicateProxies
CandidateLists ==
    UNION {[1..n -> Candidates] : n \in 1..MaxQty}

\* checkDuplicateProxies(proxyStrings) is called and returns; error tells
\* whether the select returned an error
CheckDuplicateProxiesCall(proxyStrings, ok) ==
    /\ call' = [fn |-> "checkDuplicateProxies",
                proxyStrings |-> proxyStrings,
                error |-> ~ok,
                result |-> CheckDuplicateProxies(proxyStrings, ok)]
    /\ exported' = NoExport
    /\ UNCHANGED <<sessionVars, storeVars>>

NextOracle ==
    \E proxyStrings \in CandidateLists, ok \in BOOLEAN :
        CheckDuplicateProxiesCall(proxyStrings, ok)

\* checkDuplicateProxies is called with any list on a store that holds any
\* of the strings the loop can synthesize
SpecOracle == InitForm /\ [][NextOracle]_vars

\* a save that has ended: the key, the strings of its proxies argument and
\* whether its insert succeeded
EndedSaves ==
    [key : Clients, strings : (SUBSET Candidates) \ {{}}, inserted : BOOLEAN]

\* no save
NoSave == [key |-> "", strings |-> {}, inserted |-> FALSE]

\* the batch rows that the saves f[1], f[2], ... have left
BatchesOf(f) ==
    {[id |-> i, api_key_id |-> f[i].key,
      total_generated |-> Cardinality(f[i].strings), created_at |-> i] :
        i \in {j \in DOMAIN f : f[j] # NoSave}}

\* the rows of generated_proxies that the saves f[1], f[2], ... have left
ProxiesOf(f) ==
    UNION {InsertRows(f[i].key, SavedList(f[i].strings), i) :
               i \in {j \in DOMAIN f : f[j].inserted}}

\* The sessions are idle and the store is as up to MaxBatches saves of the
\* two keys have left it, each with its insert succeeded or failed.
InitBatches ==
    /\ form = [c \in Clients |-> EmptyForm]
    /\ bulkAmount = [c \in Clients |-> <<"1">>]
    /\ bulkProxies = [c \in Clients |-> Empty]
    /\ isGenerating = [c \in Clients |-> FALSE]
    /\ isSaving = [c \in Clients |-> FALSE]
    /\ alert = NoAlert
    /\ clicked = NoClick
    /\ exported = NoExport
    /\ api_keys = Clients
    /\ genPc = [c \in Clients |-> "idle"]
    /\ amount = [c \in Clients |-> 0]
    /\ proxies = [c \in Clients |-> <<>>]
    /\ generated = [c \in Clients |-> 0]
    /\ attempts = [c \in Clients |-> 0]
    /\ checkFailed = [c \in Clients |-> FALSE]
    /\ saves = {}
    /\ nextSave = MaxBatches + 1
    /\ genSeq = [c \in Clients |-> 0]
    /\ call = NoCall
    /\ generation_history = {}
    /\ clock = MaxBatches + 1
    /\ \E f \in [1..MaxBatches -> EndedSaves \cup {NoSave}] :
           /\ generation_batches = BatchesOf(f)
           /\ generated_proxies = ProxiesOf(f)
           /\ batchResult = [i \in {j \in DOMAIN f : f[j] # NoSave} |-> 0]

\* the columns get_proxies_by_batch returns of a row (created_at, which
\* only orders the rows, left out)
BatchColumns(gp) ==
    [id |-> gp.id, proxy_string |-> gp.proxy_string, host |-> gp.host,
     port |-> gp.port, user_id |-> gp.user_id, country |-> gp.country,
     session_id |-> gp.session_id]

\* variant of GetProxiesByBatch: the owner of the batch is not verified
GetProxiesByBatchUnverified(batchId, apiKeyId) ==
    /\ call' = [fn |-> "getProxiesByBatch", batchId |-> batchId,
                apiKeyId |-> apiKeyId, error |-> FALSE,
                result |-> {BatchColumns(gp) :
                               gp \in {x \in generated_proxies :
                                           x.batch_id = batchId}}]
    /\ exported' = NoExport
    /\ UNCHANGED <<sessionVars, storeVars>>

\* getProxiesByBatch(batchId, apiKeyId): get_proxies_by_batch raises
\* 'Access denied' unless a batch row with that id and owner exists, and
\* getProxiesByBatch then throws (error, nothing returned); otherwise the
\* rows with that batch_id are returned
GetProxiesByBatch(batchId, apiKeyId) ==
    /\ LET owned == \E gb \in generation_batches :
                        gb.id = batchId /\ gb.api_key_id = apiKeyId
       IN  call' = [fn |-> "getProxiesByBatch", batchId |-> batchId,
                    apiKeyId |-> apiKeyId, error |-> ~owned,
                    result |-> IF owned
                               THEN {BatchColumns(gp) :
                                        gp \in {x \in generated_proxies :
                                                    x.batch_id = batchId}}
                               ELSE {}]
    /\ exported' = NoExport
    /\ UNCHANGED <<sessionVars, storeVars>>

\* any key asks for any batch id, also one that no batch row has
NextBatches ==
    \E batchId \in 1..(MaxBatches + 1), apiKeyId \in Clients :
        GetProxiesByBatch(batchId, apiKeyId)

SpecBatches == InitBatches /\ [][NextBatches]_vars

\* a batch row as create_generation_batch has left it: owner and created_at
CreatedBatches == [key : Clients, created_at : 1..MaxTime]

\* a generation_history row as logGenerationHistory has left it
LoggedActions ==
    [key : Clients, action_type : {"generate", "copy", "download"},
     created_at : 1..MaxTime]

\* no row
NoRow == [key |-> ""]

\* the rows of a table numbered from the latest to the earliest, without
\* gaps (ids are random uuids, so the numbering is free)
LatestFirst(f) ==
    \A i \in DOMAIN f : i + 1 \in DOMAIN f /\ f[i + 1] # NoRow
        => f[i] # NoRow /\ f[i].created_at >= f[i + 1].created_at

\* The sessions are idle; the store holds up to MaxBatches batch rows and up
\* to MaxLogs generation_history rows of the two keys, created at any times
\* (also the same time).  Batch i was created for i proxies.
InitHistory ==
    /\ form = [c \in Clients |-> EmptyForm]
    /\ bulkAmount = [c \in Clients |-> <<"1">>]
    /\ bulkProxies = [c \in Clients |-> Empty]
    /\ isGenerating = [c \in Clients |-> FALSE]
    /\ isSaving = [c \in Clients |-> FALSE]
    /\ alert = NoAlert
    /\ clicked = NoClick
    /\ exported = NoExport
    /\ api_keys = Clients
    /\ genPc = [c \in Clients |-> "idle"]
    /\ amount = [c \in Clients |-> 0]
    /\ proxies = [c \in Clients |-> <<>>]
    /\ generated = [c \in Clients |-> 0]
    /\ attempts = [c \in Clients |-> 0]
    /\ checkFailed = [c \in Clients |-> FALSE]
    /\ saves = {}
    /\ nextSave = MaxBatches + 1
    /\ genSeq = [c \in Clients |-> 0]
    /\ call = NoCall
    /\ generated_proxies = {}
    /\ clock = MaxTime + 1
    /\ \E f \in [1..MaxBatches -> CreatedBatches \cup {NoRow}] :
           /\ LatestFirst(f)
           /\ generation_batches =
                  {[id |-> i, api_key_id |-> f[i].key, total_generated |-> i,
                    created_at |-> f[i].created_at] :
                       i \in {j \in DOMAIN f : f[j] # NoRow}}
           /\ batchResult = [i \in {j \in DOMAIN f : f[j] # NoRow} |-> 0]
    /\ \E g \in [1..MaxLogs -> LoggedActions \cup {NoRow}] :
           /\ LatestFirst(g)
           /\ generation_history =
                  {[id |-> i, api_key_id |-> g[i].key, total_generated |-> 1,
                    action_type |-> g[i].action_type,
                    created_at |-> g[i].created_at] :
                       i \in {j \in DOMAIN g : g[j] # NoRow}}

\* first branch of the UNION ALL: the batch rows of the key as 'generate'
\* rows; row names the table row it was selected from
BatchBranch(p_api_key_id) ==
    {[batch_id |-> [null |-> FALSE, id |-> gb.id],
      total_generated |-> gb.total_generated,
      created_at |-> gb.created_at,
      action_type |-> "generate",
      row |-> <<"gb", gb.id>>] :
         gb \in {x \in generation_batches : x.api_key_id = p_api_key_id}}

\* variant of HistoryBranch: the action_type is not filtered
HistoryBranchUnfiltered(p_api_key_id) ==
    {[batch_id |-> [null |-> TRUE, id |-> 0],
      total_generated |-> gh.total_generated,
      created_at |-> gh.created_at,
      action_type |-> gh.action_type,
      row |-> <<"gh", gh.id>>] :
         gh \in {x \in generation_history : x.api_key_id = p_api_key_id}}

\* second branch of the UNION ALL: the copy and download rows of the key,
\* with a NULL batch_id
HistoryBranch(p_api_key_id) ==
    {[batch_id |-> [null |-> TRUE, id |-> 0],
      total_generated |-> gh.total_generated,
      created_at |-> gh.created_at,
      action_type |-> gh.action_type,
      row |-> <<"gh", gh.id>>] :
         gh \in {x \in generation_history :
                    /\ x.api_key_id = p_api_key_id
                    /\ x.action_type \in {"copy", "download"}}}

\* ORDER BY created_at DESC: every arrangement of the selected rows in
\* which created_at never increases (rows of equal created_at in any order)
OrderByCreatedAtDesc(rows) ==
    {s \in [1..Cardinality(rows) -> rows] :
        /\ \A i, j \in DOMAIN s : i # j => s[i] # s[j]
        /\ \A i, j \in DOMAIN s : i < j => s[i].created_at >= s[j].created_at}

\* the columns of a returned row
HistoryColumns(x) ==
    [batch_id |-> x.batch_id, total_generated |-> x.total_generated,
     created_at |-> x.created_at, action_type |-> x.action_type]

\* get_user_generation_history(p_api_key_id), which getUserProxyHistory
\* calls and maps row by row
GetUserGenerationHistory(p_api_key_id) ==
    /\ \E s \in OrderByCreatedAtDesc(BatchBranch(p_api_key_id)
                                          \cup HistoryBranch(p_api_key_id)) :
           call' = [fn |-> "get_user_generation_history",
                    p_api_key_id |-> p_api_key_id,
                    result |-> [i \in DOMAIN s |-> HistoryColumns(s[i])]]
    /\ exported' = NoExport
    /\ UNCHANGED <<sessionVars, storeVars>>

NextHistory ==
    \E p_api_key_id \in Clients : GetUserGenerationHistory(p_api_key_id)

SpecHistory == InitHistory /\ [][NextHistory]_vars

\* The sessions are idle with empty forms and the store is empty.
InitCodec ==
    /\ form = [c \in Clients |-> EmptyForm]
    /\ bulkAmount = [c \in Clients |-> <<"1">>]
    /\ bulkProxies = [c \in Clients |-> Empty]
    /\ isGenerating = [c \in Clients |-> FALSE]
    /\ isSaving = [c \in Clients |-> FALSE]
    /\ alert = NoAlert
    /\ clicked = NoClick
    /\ exported = NoExport
    /\ api_keys = Clients
    /\ genPc = [c \in Clients |-> "idle"]
    /\ amount = [c \in Clients |-> 0]
    /\ proxies = [c \in Clients |-> <<>>]
    /\ generated = [c \in Clients |-> 0]
    /\ attempts = [c \in Clients |-> 0]
    /\ checkFailed = [c \in Clients |-> FALSE]
    /\ saves = {}
    /\ nextSave = 1
    /\ generation_batches = {}
    /\ generated_proxies = {}
    /\ generation_history = {}
    /\ clock = 0
    /\ genSeq = [c \in Clients |-> 0]
    /\ batchResult = <<>>
    /\ call = NoCall

\* findCountryCode(countryStr)
FindCountryCodeCall(countryStr) ==
    /\ call' = [fn |-> "findCountryCode", countryStr |-> countryStr,
                result |-> FindCountryCode(countryStr)]
    /\ clicked' = NoClick
    /\ exported' = NoExport
    /\ UNCHANGED <<uiVars, loopVars, saveVars, storeVars, genSeq, batchResult>>

\* handlePasteInputChange with a string that the inner for loop of the
\* generator builds from template and draw: the parsed details replace the
\* fields of the form.  modifiedHost and finalCountryCode are the loop's
\* locals of these names.
HandlePasteInputChange(c, template, draw) ==
    \E value \in {FormatProxy(template, draw)} :
    \E parsedDetails \in {ParseProxyString(value)} :
        /\ call' = [fn |-> "parseProxyString", proxyStr |-> value,
                    template |-> template, draw |-> draw,
                    modifiedHost |-> ReplaceShard(template.host, draw.shard),
                    finalCountryCode |-> FinalCountryCode(template.country),
                    result |-> parsedDetails]
        /\ form' = IF /\ Includes(value, ":")
                      /\ Len(Split(value, ":")) >= 4
                      /\ parsedDetails # NoDetails
                   THEN [form EXCEPT ![c] =
                            [host |-> parsedDetails.host,
                             port |-> parsedDetails.port,
                             userId |-> parsedDetails.userId,
                             country |-> parsedDetails.country,
                             password |-> parsedDetails.password]]
                   ELSE form
        /\ clicked' = NoClick
        /\ exported' = NoExport
        /\ UNCHANGED <<bulkAmount, bulkProxies, isGenerating, isSaving, alert,
                       loopVars, saveVars, storeVars, genSeq, batchResult>>

NextCodec ==
    \/ \E countryStr \in CountryStrs : FindCountryCodeCall(countryStr)
    \/ \E c \in Clients, template \in CodecTemplates, draw \in Draws :
           HandlePasteInputChange(c, template, draw)

SpecCodec == InitCodec /\ [][NextCodec]_vars

\* findCountryCode is applied to every text of the countries table
NextResolver ==
    \E countryStr \in TableStrs \cup CountryStrs :
        FindCountryCodeCall(countryStr)

SpecResolver == InitCodec /\ [][NextResolver]_vars

\* ------------------------------------------------------------------------
\* The store under saves, reads and the deletion of keys
\* ------------------------------------------------------------------------

\* a displayed result no line of which the handlers keep: the host was typed
\* with a colon, so the third segment of the line is the port
UnparsedResult ==
    FormatProxy([host |-> <<"h", ":">>, port |-> <<"8">>, userId |-> <<"u">>,
                 country |-> <<"u", "k">>, password |-> <<"p">>],
                [session |-> SessionSample(1), shard |-> ShardSample(1)])

\* what the session of the first key may display
Displays == {EarlierResult, UnparsedResult}

\* The store is empty, both keys exist, and every session displays a result
\* it generated earlier: the second a well-formed line, the first either
\* display.
InitStore ==
    /\ form = [c \in Clients |-> EmptyForm]
    /\ bulkAmount = [c \in Clients |-> <<"1">>]
    /\ \E shown \in Displays :
           bulkProxies =
               [c \in Clients |-> IF c = "k1" THEN shown ELSE EarlierResult]
    /\ isGenerating = [c \in Clients |-> FALSE]
    /\ isSaving = [c \in Clients |-> FALSE]
    /\ alert = NoAlert
    /\ clicked = NoClick
    /\ exported = NoExport
    /\ api_keys = Clients
    /\ genPc = [c \in Clients |-> "idle"]
    /\ amount = [c \in Clients |-> 0]
    /\ proxies = [c \in Clients |-> <<>>]
    /\ generated = [c \in Clients |-> 0]
    /\ attempts = [c \in Clients |-> 0]
    /\ checkFailed = [c \in Clients |-> FALSE]
    /\ saves = {}
    /\ nextSave = 1
    /\ genSeq = [c \in Clients |-> 0]
    /\ batchResult = <<>>
    /\ call = NoCall
    /\ generation_batches = {}
    /\ generated_proxies = {}
    /\ generation_history = {}
    /\ clock = 1

\* variant of DeleteApiKey: the records of the deleted batches stay
DeleteApiKeyKeepsRecords(key_id) ==
    /\ api_keys' = api_keys \ {key_id}
    /\ generation_batches' =
           {gb \in generation_batches : gb.api_key_id # key_id}
    /\ generation_history' =
           {gh \in generation_history : gh.api_key_id # key_id}
    /\ call' = [fn |-> "delete_api_key", key_id |-> key_id,
                result |-> key_id \in api_keys]
    /\ alert' = NoAlert
    /\ clicked' = NoClick
    /\ exported' = NoExport
    /\ UNCHANGED <<form, bulkAmount, bulkProxies, isGenerating, isSaving,
                   loopVars, saveVars, generated_proxies, clock, genSeq,
                   batchResult>>

\* delete_api_key(admin_key, key_id) called by an administrator for a key
\* that is no admin key: the api_keys row is deleted and FOUND returned; ON
\* DELETE CASCADE removes the generation_batches, generated_proxies and
\* generation_history rows that reference the key and the generated_proxies
\* rows that reference a removed batch.  The sessions are not told.
DeleteApiKey(key_id) ==
    /\ api_keys' = api_keys \ {key_id}
    /\ generation_batches' =
           {gb \in generation_batches : gb.api_key_id # key_id}
    /\ generated_proxies' =
           {gp \in generated_proxies :
               /\ gp.api_key_id # key_id
               /\ \A gb \in generation_batches :
                      gb.id = gp.batch_id => gb.api_key_id # key_id}
    /\ generation_history' =
           {gh \in generation_history : gh.api_key_id # key_id}
    /\ call' = [fn |-> "delete_api_key", key_id |-> key_id,
                result |-> key_id \in api_keys]
    /\ alert' = NoAlert
    /\ clicked' = NoClick
    /\ exported' = NoExport
    /\ UNCHANGED <<form, bulkAmount, bulkProxies, isGenerating, isSaving,
                   loopVars, saveVars, clock, genSeq, batchResult>>

\* getUserStats(apiKeyId): the generation_history rows and the
\* generated_proxies rows of the key are selected and counted
GetUserStats(apiKeyId) ==
    /\ LET historyData == {gh \in generation_history :
                              gh.api_key_id = apiKeyId}
           proxyData   == {gp \in generated_proxies :
                              gp.api_key_id = apiKeyId}
       IN  call' = [fn |-> "getUserStats", apiKeyId |-> apiKeyId,
                    result |->
                        [totalGenerated  |-> Cardinality(proxyData),
                         totalSessions   |-> Cardinality(historyData),
                         totalCopied     |->
                             Cardinality({h \in historyData :
                                             h.action_type = "copy"}),
                         totalDownloaded |->
                             Cardinality({h \in historyData :
                                             h.action_type = "download"})]]
    /\ exported' = NoExport
    /\ UNCHANGED <<sessionVars, storeVars>>

\* The sessions of both keys copy and download what they display, the
\* saves run and fail at either call, an administrator deletes keys, and
\* the reading calls are made at any time (the batch asked for is the first).
NextStore ==
    \/ \E c \in Clients : CopyBulkToClipboard(c)
    \/ \E c \in Clients : DownloadProxies(c)
    \/ SaveSteps
    \/ \E key_id \in Clients : DeleteApiKey(key_id)
    \/ \E ok \in BOOLEAN : CheckDuplicateProxiesCall(<<EarlierResult>>, ok)
    \/ \E apiKeyId \in Clients : GetProxiesByBatch(1, apiKeyId)
    \/ \E p_api_key_id \in Clients : GetUserGenerationHistory(p_api_key_id)
    \/ \E apiKeyId \in Clients : GetUserStats(apiKeyId)

SpecStore == InitStore /\ [][NextStore]_vars

\* ------------------------------------------------------------------------
\* Properties
\* ------------------------------------------------------------------------

\* C1: no two rows of generated_proxies have the same proxy_string, whatever
\* sequence of generations and saves produced them.
C1_GlobalUniqueness ==
    \A r1, r2 \in generated_proxies :
        r1.proxy_string = r2.proxy_string => r1.id = r2.id

\* C2: when the sessions of two API keys generate and save concurrently, the
\* store never holds the same proxy_string in a row of each key: the later
\* insert is rejected.
C2_NoDuplicateAcrossKeys ==
    \A r1, r2 \in generated_proxies :
        r1.api_key_id # r2.api_key_id => r1.proxy_string # r2.proxy_string

\* the rows that carry a batch id
RowsOfBatch(batchId) == {r \in generated_proxies : r.batch_id = batchId}

\* the save that created a batch row has returned or thrown
SaveEnded(batchId) == \A t \in saves : t.id # batchId

\* C3: once the save that created it has ended, by returning or by throwing,
\* a batch row has total_generated equal to the number of rows that carry
\* its id.
C3_BatchConsistency ==
    \A b \in generation_batches :
        SaveEnded(b.id) => b.total_generated = Cardinality(RowsOfBatch(b.id))

\* C4: a displayed result never has two batch rows, whatever copy and
\* download clicks follow its generation.
C4_OneBatchPerResult ==
    \A b1, b2 \in generation_batches :
        (b1.api_key_id = b2.api_key_id
            /\ batchResult[b1.id] = batchResult[b2.id]) => b1.id = b2.id

\* the step in which the generation call of session c leaves the while loop
LoopExit(c) == genPc[c] = "loop" /\ genPc'[c] = "idle"

\* C5: with an empty store and a complete form, a generation call for a
\* quantity in 1..5000 leaves the loop with exactly quantity accepted
\* strings, displays them one per line and alerts no shortfall.
C5_ExactQuantityOnEmptyStore ==
    [][\A c \in Clients :
          (LoopExit(c) /\ generated_proxies = {} /\ amount[c] \in 1..MaxAmount)
          => /\ generated[c] = amount[c]
             /\ Len(proxies[c]) = amount[c]
             /\ bulkProxies'[c] = Join(proxies[c], <<"\n">>)
             /\ Len(Split(bulkProxies'[c], "\n")) = amount[c]
             /\ alert' = NoAlert]_vars

\* a generation for MaxQty strings has ended on an empty store and its
\* result of MaxQty lines is displayed
C5_Witness ==
    /\ generated_proxies = {}
    /\ genSeq["k1"] = 1
    /\ alert = NoAlert
    /\ ParseAmount(bulkAmount["k1"]) = MaxQty
    /\ Len(Split(bulkProxies["k1"], "\n")) = MaxQty

\* the name the alert gives each field of the form
FieldLabel ==
    [host |-> "Host", port |-> "Port", userId |-> "User ID",
     country |-> "Country", password |-> "Password"]

\* the fields of a form that are empty
Absent(tpl) == {f \in DOMAIN FieldLabel : tpl[f] = Empty}

\* C6: a click on Generate with a quantity above 5000 alerts InvalidQuantity
\* and does nothing else: no loop is entered (nothing synthesized, no
\* duplicate query), nothing is saved or written to the store, the displayed
\* result stays, and isGenerating is clear.
C6_AboveCeilingRejected ==
    [][\A c \in Clients :
          (/\ clicked'.key = c
           /\ Absent(clicked'.form) = {}
           /\ ParseAmount(clicked'.bulkAmount) > MaxAmount)
          => /\ alert' = InvalidQuantityAlert(c)
             /\ genPc'[c] = "idle"
             /\ UNCHANGED <<loopVars, saveVars, storeVars, histVars>>
             /\ bulkProxies' = bulkProxies
             /\ ~isGenerating'[c]]_vars

\* a quantity above 5000 has been rejected while an earlier result is
\* displayed
C6_Witness ==
    /\ clicked.key = "k1"
    /\ ParseAmount(clicked.bulkAmount) = MaxAmount + 1
    /\ alert = InvalidQuantityAlert("k1")
    /\ bulkProxies["k1"] = EarlierResult
    /\ ~isGenerating["k1"]
    /\ genPc["k1"] = "idle"

\* the quantity texts that are not a number or a number below 1
BelowRange(text) == ParseInt(text).isNaN \/ ParseInt(text).value < 1

\* C7: a click on Generate with a quantity that is not a number or below 1
\* alerts InvalidQuantity, as a quantity above 5000 does, and enters no
\* loop.
C7_BelowRangeRejected ==
    [][\A c \in Clients :
          (/\ clicked'.key = c
           /\ Absent(clicked'.form) = {}
           /\ BelowRange(clicked'.bulkAmount))
          => /\ alert' = InvalidQuantityAlert(c)
             /\ genPc'[c] = "idle"]_vars

\* C8: a click on Generate with some field empty alerts MissingField naming
\* exactly the empty fields, each once, and enters no loop (nothing
\* synthesized, no duplicate query); with no field empty MissingField is
\* not alerted, whatever the quantity field holds.
C8_MissingFieldNamesEmptyFields ==
    [][\A c \in Clients :
          clicked'.key = c
          => IF Absent(clicked'.form) # {}
             THEN /\ alert'.kind = "MissingField"
                  /\ alert'.key = c
                  /\ Range(alert'.fields)
                         = {FieldLabel[f] : f \in Absent(clicked'.form)}
                  /\ Len(alert'.fields) = Cardinality(Absent(clicked'.form))
                  /\ genPc'[c] = "idle"
                  /\ UNCHANGED <<loopVars, storeVars, bulkProxies, isGenerating>>
             ELSE alert'.kind # "MissingField"]_vars

\* the alert names the password alone
C8_Witness ==
    /\ clicked.key = "k1"
    /\ Absent(clicked.form) = {"password"}
    /\ alert = MissingFieldAlert("k1", <<"Password">>)
    /\ genPc["k1"] = "idle"
    /\ ~isGenerating["k1"]

\* every round of the running call has found all its candidates in the
\* store and the budget of attempts is spent
AllRoundsDuplicate(c) ==
    /\ genPc[c] = "loop"
    /\ amount[c] >= 1
    /\ generated[c] = 0
    /\ attempts[c] >= MaxAttempts(amount[c])

\* C9: when every round has found all its candidates in the store, the call
\* ends with the ExhaustedRetries alert: nothing was accepted, the displayed
\* result stays, no result is counted and nothing is written to the store.
C9_ExhaustedRetries ==
    [][\A c \in Clients :
          AllRoundsDuplicate(c)
          => /\ proxies[c] = <<>>
             /\ genPc'[c] = "idle"
             /\ alert' = ExhaustedRetriesAlert(c)
             /\ bulkProxies' = bulkProxies
             /\ ~isGenerating'[c]
             /\ UNCHANGED <<saveVars, storeVars, histVars>>]_vars

\* a call for a quantity of at least 1 has ended with ExhaustedRetries and
\* the earlier result is still displayed
C9_Witness ==
    /\ alert = ExhaustedRetriesAlert("k1")
    /\ ParseAmount(bulkAmount["k1"]) >= 1
    /\ bulkProxies["k1"] = EarlierResult
    /\ genSeq["k1"] = 0

\* the running call of session c is in its while loop: the loop condition
\* holds or has held
InLoop(c) == genPc[c] = "loop" /\ (attempts[c] > 0 \/ LoopCondition(c))

\* C10: in every state of the loop 0 <= generated <= amount; a call that
\* leaves the loop with at least one but fewer than amount accepted strings
\* succeeds: it displays all accepted strings and alerts the shortfall
\* amount - generated, which is positive.
C10_Shortfall ==
    /\ [](\A c \in Clients :
             InLoop(c) => /\ 0 <= generated[c]
                          /\ generated[c] <= amount[c]
                          /\ Len(proxies[c]) = generated[c])
    /\ [][\A c \in Clients :
             (LoopExit(c) /\ 0 < generated[c] /\ generated[c] < amount[c])
             => /\ alert'.kind = "Shortfall"
                /\ alert'.key = c
                /\ alert'.generated = generated[c]
                /\ alert'.amount - alert'.generated = amount[c] - generated[c]
                /\ alert'.amount - alert'.generated > 0
                /\ bulkProxies'[c] = Join(proxies[c], <<"\n">>)
                /\ Len(Split(bulkProxies'[c], "\n")) = generated[c]
                /\ genSeq'[c] = genSeq[c] + 1]_vars

\* a call has ended one string short of MaxQty and displays what it accepted
C10_Witness ==
    /\ alert.kind = "Shortfall"
    /\ alert.key = "k1"
    /\ alert.amount = MaxQty
    /\ alert.generated = MaxQty - 1
    /\ bulkProxies["k1"] # Empty
    /\ Len(Split(bulkProxies["k1"], "\n")) = MaxQty - 1
    /\ genSeq["k1"] = 1

\* C11: a generation loop for a quantity of at least 1 terminates; every
\* round strictly increases attempts; the loop is left exactly when
\* generated = amount or attempts >= amount * 10.
C11_LoopTerminates ==
    /\ \A c \in Clients :
          (genPc[c] = "loop" /\ amount[c] >= 1) ~> (genPc[c] = "idle")
    /\ [][\A c \in Clients :
             (genPc[c] = "loop" /\ amount[c] >= 1)
             => IF generated[c] = amount[c]
                   \/ attempts[c] >= amount[c] * AttemptFactor
                THEN genPc'[c] = "idle"
                ELSE /\ genPc'[c] = "loop"
                     /\ attempts'[c] > attempts[c]
                     /\ generated'[c] >= generated[c]]_vars

\* a loop for MaxQty strings has spent its whole budget of attempts with
\* some, but not all, strings accepted
C11_Witness ==
    /\ genPc["k1"] = "loop"
    /\ amount["k1"] = MaxQty
    /\ attempts["k1"] = MaxQty * AttemptFactor
    /\ 0 < generated["k1"]
    /\ generated["k1"] < amount["k1"]

\* the step is a step of the generation call of session c: the click on
\* Generate, a round of the loop or the exit
GenerationStep(c) ==
    clicked'.key = c \/ attempts'[c] # attempts[c] \/ LoopExit(c)

\* the rows of the three tables
Tables == <<generation_batches, generated_proxies, generation_history>>

\* C12: no step of a generation call, from the click to the exit (result,
\* shortfall or failure), changes generation_batches, generated_proxies or
\* generation_history or starts a save; the tables change only in the step
\* of a running saveGeneratedProxies call.
C12_GenerationWritesNothing ==
    [][/\ \A c \in Clients :
             GenerationStep(c) => UNCHANGED <<storeVars, saveVars>>
       /\ Tables' # Tables => \E t \in saves : t \notin saves']_vars

\* a session has generated a result while the store holds rows, all of
\* them saved by the session of the other key
C12_Witness ==
    /\ genSeq["k1"] = 1
    /\ genPc["k1"] = "idle"
    /\ bulkProxies["k1"] # Empty
    /\ generated_proxies # {}
    /\ \A r \in generated_proxies : r.api_key_id = "k2"

\* the strings of the rows of generated_proxies
StoredStrings == {r.proxy_string : r \in generated_proxies}

\* C13: a string of the list passed to checkDuplicateProxies is missing from
\* the returned list only if no row of the store has it, also when the
\* select fails.
C13_OracleExact ==
    call.fn = "checkDuplicateProxies"
    => \A i \in 1..Len(call.proxyStrings) :
           call.proxyStrings[i] \notin call.result
           => call.proxyStrings[i] \notin StoredStrings

\* C14: a generation call with a failed duplicate query displays no result
\* and counts none, and the round whose query is the first to fail accepts
\* none of its candidates.
C14_StoreFailureIsFatal ==
    [][\A c \in Clients :
          /\ (LoopExit(c) /\ checkFailed[c])
             => /\ bulkProxies'[c] = bulkProxies[c]
                /\ genSeq'[c] = genSeq[c]
                /\ alert'.kind \notin {"none", "Shortfall"}
          /\ (genPc[c] = "loop" /\ ~checkFailed[c] /\ checkFailed'[c])
             => /\ generated'[c] = generated[c]
                /\ proxies'[c] = proxies[c]]_vars

\* the insert of save t collides: a string of its rows is already stored
Collides(t) ==
    \E i \in 1..Len(t.proxies) : t.proxies[i].proxy_string \in StoredStrings

\* C15: when the insert of a save collides with a stored proxy_string, the
\* save does not fail: it ends with as many new rows as it has proxies, none
\* of them with a string that was stored before (the colliding candidate is
\* replaced by a fresh one and the insert retried).
C15_CollisionRetried ==
    [][\A t \in saves :
          (t.stage = "insert" /\ Collides(t) /\ t \notin saves')
          => /\ alert'.kind # "SaveError"
             /\ Cardinality(generated_proxies' \ generated_proxies)
                    = Len(t.proxies)
             /\ \A r \in generated_proxies' \ generated_proxies :
                    r.proxy_string \notin StoredStrings]_vars

\* C16: getProxiesByBatch(batchId, requester) fails and returns no record
\* when no batch row with that id is owned by the requester (the batch is
\* another key's or does not exist); when the requester owns the batch it
\* returns exactly the rows that carry the batch id, with their columns.
C16_BatchAccess ==
    call.fn = "getProxiesByBatch"
    => IF \E b \in generation_batches :
              b.id = call.batchId /\ b.api_key_id = call.apiKeyId
       THEN /\ ~call.error
            /\ {x.id : x \in call.result}
                   = {r.id : r \in RowsOfBatch(call.batchId)}
            /\ \A x \in call.result :
                   \E r \in RowsOfBatch(call.batchId) :
                       /\ x.id = r.id
                       /\ x.proxy_string = r.proxy_string
                       /\ x.host = r.host /\ x.port = r.port
                       /\ x.user_id = r.user_id /\ x.country = r.country
                       /\ x.session_id = r.session_id
       ELSE call.error /\ call.result = {}

\* a key has asked for a batch of the other key that has rows, and was
\* denied
C16_Witness ==
    /\ call.fn = "getProxiesByBatch"
    /\ call.error
    /\ RowsOfBatch(call.batchId) # {}
    /\ \E b \in generation_batches :
           b.id = call.batchId /\ b.api_key_id # call.apiKeyId

\* the positions of a list whose element satisfies nothing but equality to x
Positions(list, x) == {i \in DOMAIN list : list[i] = x}

\* C17: get_user_generation_history(k) returns one 'generate' row for every
\* batch row of k, with its id and total_generated, one row with a null
\* batch id for every copy or download row of generation_history of k, and
\* nothing else (no row of another key, no 'generate' row of
\* generation_history), in descending created_at order.
C17_HistoryExact ==
    call.fn = "get_user_generation_history"
    => LET k       == call.p_api_key_id
           res     == call.result
           batches == {b \in generation_batches : b.api_key_id = k}
           logs    == {h \in generation_history :
                          h.api_key_id = k
                          /\ h.action_type \in {"copy", "download"}}
       IN  /\ Len(res) = Cardinality(batches) + Cardinality(logs)
           /\ \A b \in batches :
                  Cardinality(Positions(res,
                      [batch_id |-> [null |-> FALSE, id |-> b.id],
                       total_generated |-> b.total_generated,
                       created_at |-> b.created_at,
                       action_type |-> "generate"])) = 1
           /\ \A h \in logs :
                  Cardinality(Positions(res,
                      [batch_id |-> [null |-> TRUE, id |-> 0],
                       total_generated |-> h.total_generated,
                       created_at |-> h.created_at,
                       action_type |-> h.action_type]))
                  = Cardinality({x \in logs :
                        /\ x.total_generated = h.total_generated
                        /\ x.created_at = h.created_at
                        /\ x.action_type = h.action_type})
           /\ \A i \in DOMAIN res :
                  res[i].batch_id.null = (res[i].action_type # "generate")
           /\ \A i, j \in DOMAIN res :
                  i < j => res[i].created_at >= res[j].created_at

\* the history of a key with a batch and a copy or download row has been
\* returned while the store also holds a batch of the other key
C17_Witness ==
    /\ call.fn = "get_user_generation_history"
    /\ \E i, j \in DOMAIN call.result :
           /\ call.result[i].action_type = "generate"
           /\ call.result[j].action_type \in {"copy", "download"}
    /\ \E b \in generation_batches : b.api_key_id # call.p_api_key_id

\* C18: findCountryCode returns one and the same code for "UK", "Britain"
\* and "gb_residential", and null for "atlantis".
C18_UnitedKingdomInputsAgree ==
    call.fn = "findCountryCode"
    => /\ call.countryStr \in {<<"U", "K">>, <<"B", "r", "i", "t", "a", "i", "n">>,
                               <<"g", "b", "_", "r", "e", "s", "i", "d", "e", "n", "t", "i", "a", "l">>}
          => /\ call.result # NotFound
             /\ call.result = FindCountryCode(<<"U", "K">>)
       /\ call.countryStr = <<"a", "t", "l", "a", "n", "t", "i", "s">> => call.result = NotFound

\* C19: parsing a generated string gives back the port, user id, country
\* code and password of its template, the host with the drawn shard index
\* and the drawn session id, also when a value contains ':' or '-'.
C19_RoundTrip ==
    call.fn = "parseProxyString"
    => /\ call.result # NoDetails
       /\ call.result.host = ReplaceShard(call.template.host, call.draw.shard)
       /\ call.result.port = call.template.port
       /\ call.result.userId = call.template.userId
       /\ call.result.country \in {call.template.country,
                                   FindCountryCode(call.template.country)}
       /\ call.result.sessionId = NatToText(call.draw.session)
       /\ call.result.password = call.template.password

\* C20: the country token of a generated string is the token of the code
\* that findCountryCode gives for the country of the template, so a name or
\* an alias gives the token of its code.
C20_TokenFromResolvedCode ==
    (call.fn = "parseProxyString"
        /\ FindCountryCode(call.template.country) # NotFound)
    => call.finalCountryCode
           = FinalCountryCode(FindCountryCode(call.template.country))

\* the positions of the shard markers s<digits> of a host
Markers(host) ==
    {i \in 1..(Len(host) - 1) : host[i] = "s" /\ IsDigit(host[i + 1])}

RECURSIVE Skeleton(_, _)
\* a host without the digits of its shard markers; inMarker tells that the
\* character before was the s or a digit of a marker
Skeleton(host, inMarker) ==
    IF host = <<>> THEN <<>>
    ELSE IF inMarker /\ IsDigit(Head(host)) THEN Skeleton(Tail(host), TRUE)
    ELSE <<Head(host)>> \o Skeleton(Tail(host), Head(host) = "s")

\* C21: a synthesized candidate has a session id in [100000, 999999], a host
\* in which every shard marker of the template host is replaced by s<n> with
\* n in [1, 15] and nothing else is changed, and the port, user id and
\* password of the template.
C21_CandidateShape ==
    call.fn = "parseProxyString"
    => /\ call.draw.session \in SessionBase..(SessionBase + SessionSpan - 1)
       /\ Skeleton(call.modifiedHost, FALSE)
              = Skeleton(call.template.host, FALSE)
       /\ \A i \in Markers(call.modifiedHost) :
              DigitsValue(SubSeq(call.modifiedHost, i + 1,
                                 Len(call.modifiedHost)), 0)
                  \in ShardBase..(ShardBase + ShardSpan - 1)
       /\ call.proxyStr
              = call.modifiedHost \o <<":">> \o call.template.port \o <<":">>
                \o call.template.userId \o <<"-">> \o call.finalCountryCode
                \o <<"-">> \o NatToText(call.draw.session) \o <<":">>
                \o call.template.password

\* C22: parseProxyString returns a record exactly for the inputs that split
\* on ':' into exactly 4 segments of which the third splits on '-' into at
\* least 3, and null for every other input.
C22_ExactlyFourSegments ==
    call.fn = "parseProxyString"
    => (call.result # NoDetails
        <=> /\ Len(Split(call.proxyStr, ":")) = 4
            /\ Len(Split(Split(call.proxyStr, ":")[3], "-")) >= 3)

\* C26: for every entry of the countries table, findCountryCode of its code,
\* of its name and of each of its aliases is the code of that entry.
C26_TableTextsResolveToOwnCode ==
    call.fn = "findCountryCode"
    => \A i \in 1..Len(countries) :
           (\/ call.countryStr = countries[i].code
            \/ call.countryStr = countries[i].name
            \/ \E a \in 1..Len(countries[i].aliases) :
                   call.countryStr = countries[i].aliases[a])
           => call.result = countries[i].code

\* C25: a round synthesizes exactly min(100, amount - generated) candidates
\* of the form, asks the store about exactly these in one query, and appends
\* to the accepted list those the query did not return, in the order of
\* their synthesis.
C25_RoundShape ==
    [][\A c \in Clients :
          attempts'[c] > attempts[c]
          => /\ call'.fn = "checkDuplicateProxies"
             /\ Len(call'.proxyStrings)
                    = Min(RoundLimit, amount[c] - generated[c])
             /\ attempts'[c] = attempts[c] + Len(call'.proxyStrings)
             /\ \A i \in 1..Len(call'.proxyStrings) :
                    \E d \in Draws :
                        call'.proxyStrings[i] = FormatProxy(form[c], d)
             /\ proxies'[c]
                    = proxies[c]
                      \o Filter(call'.proxyStrings,
                                Range(call'.proxyStrings) \ call'.result)
             /\ generated'[c] = Len(proxies'[c])]_vars

\* a call for 2 strings is in a later round that synthesized the one string
\* still missing, after a round in which the store returned a candidate
C25_Witness ==
    /\ genPc["k1"] = "loop"
    /\ call.fn = "checkDuplicateProxies"
    /\ amount["k1"] = 2
    /\ Len(call.proxyStrings) = 1
    /\ generated["k1"] = 2
    /\ attempts["k1"] >= 3

\* C27: the strings accepted by a running call are pairwise distinct.
C27_AcceptedDistinct ==
    \A c \in Clients :
        \A i, j \in 1..Len(proxies[c]) :
            i # j => proxies[c][i] # proxies[c][j]

\* C28: in every state of the loop of a call for at least 1 string the
\* number of candidates synthesized so far is at most amount * 10.
C28_AttemptsWithinBudget ==
    \A c \in Clients :
        (genPc[c] = "loop" /\ amount[c] >= 1)
        => attempts[c] <= amount[c] * AttemptFactor

\* C30: a session runs at most one generation: a call of generateBulkProxies
\* while isGenerating starts no loop and leaves the running one as it is, a
\* loop runs only while isGenerating, and isGenerating is cleared again on
\* every way out of a started generation.
C30_OneGenerationAtATime ==
    /\ [][\A c \in Clients :
             (isGenerating[c] /\ clicked'.key = c)
             => UNCHANGED <<uiVars, loopVars, saveVars, storeVars, histVars>>]_vars
    /\ [](\A c \in Clients : genPc[c] = "loop" => isGenerating[c])
    /\ \A c \in Clients : isGenerating[c] ~> ~isGenerating[c]

\* generateBulkProxies has been called while the loop of the session was
\* running and had synthesized candidates
C30_Witness ==
    /\ isGenerating["k1"]
    /\ clicked.key = "k1"
    /\ genPc["k1"] = "loop"
    /\ attempts["k1"] > 0

\* the keys whose api_keys row the step deletes
DeletedKeys == api_keys \ api_keys'

\* C23: a row of generation_batches or generated_proxies, once written, is
\* never changed and never removed by a save, a duplicate check, a batch or
\* history fetch or the statistics; it goes only in a step that deletes the
\* api_keys row of its owner, and that step removes every batch of the key
\* and every record of those batches.
C23_RowsWriteOnce ==
    [][/\ \A gb \in generation_batches \ generation_batches' :
              gb.api_key_id \in DeletedKeys
       /\ \A gp \in generated_proxies \ generated_proxies' :
              \E gb \in generation_batches :
                  gb.id = gp.batch_id /\ gb.api_key_id \in DeletedKeys
       /\ \A gb \in generation_batches :
              gb.api_key_id \in DeletedKeys
              => /\ \A x \in generation_batches' : x.id # gb.id
                 /\ \A gp \in generated_proxies' : gp.batch_id # gb.id]_vars

\* a key has been deleted whose batch had been created, while the records
\* of a batch of the other key remain
C23_Witness ==
    /\ call.fn = "delete_api_key"
    /\ call.result
    /\ \E id \in DOMAIN batchResult :
           \A gb \in generation_batches : gb.id # id
    /\ \E gp \in generated_proxies :
           \E gb \in generation_batches : gb.id = gp.batch_id

\* C24: every generated_proxies row names a batch that exists and belongs
\* to the key of the row, also after a save has failed or was abandoned
\* between its two calls.
C24_RecordsReferToOwnedBatch ==
    \A gp \in generated_proxies :
        \E gb \in generation_batches :
            gb.id = gp.batch_id /\ gb.api_key_id = gp.api_key_id

\* a save has ended after its batch was created and before any record was
\* inserted, and another save has inserted its records
C24_Witness ==
    /\ saves = {}
    /\ \E gb \in generation_batches :
           \A gp \in generated_proxies : gp.batch_id # gb.id
    /\ \E gb \in generation_batches :
           \E gp \in generated_proxies : gp.batch_id = gb.id

\* C29: a session of a logged-in user that displays at least one well-formed
\* line exports its text (to the clipboard or to a file) only in the step
\* in which its save returns with the records inserted; when the save
\* fails, nothing is exported.
C29_ExportFollowsPersistence ==
    [][\A c \in Clients :
          (exported'.key = c /\ Len(ProxyData(bulkProxies[c])) > 0)
          => \E t \in saves \ saves' :
                 /\ t.key = c
                 /\ InsertRows(t.key, t.proxies, t.id)
                        \subseteq generated_proxies']_vars

====
